---- MODULE Spec2Model ----
(***************************************************************************)
(* Connection lifecycle and command delivery of one LGDevice handle        *)
(* (src/src/lg.py): the connect lock, the background _connect_loop task,   *)
(* connect()/disconnect(), the command buffer and its drain, and the       *)
(* retry wrapper around commands.                                          *)
(*                                                                         *)
(* The handle runs on one asyncio event loop: code between two awaits is   *)
(* atomic, so every action below is the code of one task from one point    *)
(* where it really suspends to the next one.  The transport (WebOsClient)  *)
(* is external: each of its calls ends in one of the outcomes it can       *)
(* produce, chosen nondeterministically.                                   *)
(***************************************************************************)
EXTENDS Integers, Sequences, FiniteSets, TLC

\* ---- program constants (src/src/lg.py) ----
DEFAULT_TIMEOUT == 5
BUFFER_LIFETIME == 30
CONNECTION_RETRIES == 20
CONNECT_LOCK_TIMEOUT == 20

\* ---- bounds of the model ----
\* task slots
MaxLoops == 2
MaxConns == 3
MaxCalls == 1
\* budgets of the environment under Spec
MaxCmds == 1
MaxTicks == 0
MaxExt == 1
MaxDisc == 1
MaxIter == 2
\* budgets of the environment under SpecReplay
ReplayCmds == 2
ReplayTicks == 1
ReplayIter == 1
\* budgets of the environment under SpecDrain
DrainCmds == 4
DrainTicks == 1
DrainDisc == 1
\* budgets of the environment under SpecWait
WaitExt == 1
WaitCmds == 2
WaitIter == 1
\* budgets of the environment under SpecInput
InputExt == 1
InputCmds == 1
InputIter == 1
\* budgets of the environment under SpecAttempt
AttemptExt == 2
AttemptDisc == 1
AttemptIter == 1

LockExt == 2
LockDisc == 1
LockTicks == 1
LockIter == 1

ConfigExt == 2
ConfigCmds == 1
ConfigIter == 1

\* the state update: changes of the device report, and the runs counted on an
\* unchanged report
MaxReports == 4
MaxSame == 2
\* budgets of the environment under SpecRetry
RetryExt == 1
RetryDisc == 1
RetryIter == 22
SessionExt == 2
SessionDisc == 1
SessionIter == 1
SessionPush == 2
PowerCmds == 2
PowerTicks == 1
PowerIter == 1
WakeDisc == 1
WakeCmds == 2
WakeIter == 1
AddressChecks == 3
AddressExt == 2
AddressIter == 1
CommandExt == 1
CommandCmds == 1
CommandIter == 1
LoopExt == 1
LoopIter == 22

\* clock increments the environment can make between two steps
TickSteps == {BUFFER_LIFETIME, BUFFER_LIFETIME + 1}

\* the bufferize arguments the decorators of lg.py pass to retry
Bufferize == {FALSE}

Loops == {<<"loop", i>> : i \in 1..MaxLoops}
Conns == {<<"conn", i>> : i \in 1..MaxConns}
Calls == {<<"call", i>> : i \in 1..MaxCalls}
Attempts == Loops \cup Conns
NoTask == <<"none", 0>>

SourceNames == {"HDMI1", "Live TV"}
Reports == {{}, {"HDMI1"}}
SelectArgs == {"HDMI1"}
\* the names a caller can ask select_source for: a reported one and an unknown one
Requests == {"HDMI1", "HDMI2"}
NoEntry == [id |-> 0, fn |-> "none", src |-> "none"]

\* the volume arguments of set_volume_level: None is <<>>, a number v is <<v>>
VolumeArgs == {<<>>, <<50>>, <<150>>}

\* what is known of a call in progress: the function and its argument, whether
\* the handle was unavailable (for select_source: the device not ready) when it
\* was called, whether the argument was a known source, and what the call has
\* done so far (its wait timed out, it called the transport, it started a retry
\* loop or a reconnect, it sent a wake packet, it put an entry in the buffer,
\* how many times it called the wrapped function and how many times it began to
\* wait for the connect task);
\* prevto: the wait of an earlier call made while unavailable had timed out
NoInfo == [fn |-> "none", arg |-> <<>>, unav |-> FALSE, known |-> TRUE,
           prevto |-> FALSE, to |-> FALSE, sent |-> FALSE, spawned |-> FALSE, wol |-> FALSE,
           buffered |-> FALSE, bodies |-> 0, waits |-> 0]

\* what a call returns to its caller
NoResult == [info |-> NoInfo, tries |-> 0, res |-> "none"]

\* the configuration records of one device id: the address and the client key
\* of the record the handle was created with, and of a later one
DeviceId == "tv1"

FirstConfig == [id |-> DeviceId, address |-> "192.168.1.10", key |-> "key1"]

Configs == {FirstConfig, [id |-> DeviceId, address |-> "192.168.1.20", key |-> "key2"]}

\* what the discovery reports as the host of the device: nothing, or an address
Hosts == {<<>>} \cup {<<cfg.address>> : cfg \in Configs}

\* the tasks that run Devices.handle_address_change
Checks == {<<"check", i>> : i \in 1..2}

\* the handle the driver created for the device id
FirstHandle == <<"LGDevice", 1>>

\* Python's None for an optional value: None is <<>>, a value v is <<v>>
None == <<>>

\* const.py
LIVE_TV_APP_ID == "com.webos.app.livetv"

LG_SOUND_OUTPUTS == [o \in {"tv_speaker"} |-> "Internal TV speaker"]

\* the play states of a media notification and the handle states they stand for
LG_PLAYSTATES == [p \in {"playing", "paused"} |-> IF p = "playing" THEN "PLAYING" ELSE "PAUSED"]

\* the applications and inputs a device reports (the values of tv_state.apps
\* and tv_state.inputs): an application with a remote icon, the live-broadcast
\* application with a local one and under the title the device gives it, an
\* HDMI input, and a tuner input that belongs to the live-broadcast
\* application. An icon is the pair of what its first
\* four characters are and of the rest; the empty string is NoUrl
NoUrl == <<"", "">>

AmazonApp == [id |-> "amazon", title |-> "Amazon",
              largeIcon |-> <<"http", "://lg/amazon_large.png">>,
              icon |-> <<"http", "://lg/amazon.png">>]

LiveTvApp == [id |-> LIVE_TV_APP_ID, title |-> "TV",
              largeIcon |-> <<"/med", "ia/livetv_large.png">>,
              icon |-> <<"/med", "ia/livetv.png">>]

Hdmi1Input == [id |-> "HDMI1", appId |-> "com.webos.app.hdmi1", label |-> "HDMI 1"]

TunerInput == [id |-> "ANTENNA", appId |-> LIVE_TV_APP_ID, label |-> "Antenna"]

\* the source names of these reports in the order of Python's sorted()
NameOrder == <<"ANTENNA", "Amazon", "HDMI1", "Live TV", "TV">>

\* the values each part of a device report ranges over: the fields of tv_state
\* that _update_states reads, and the answers of the two queries it sends
ReportValues ==
    [apps |-> SUBSET {AmazonApp, LiveTvApp},
     inputs |-> SUBSET {Hdmi1Input, TunerInput},
     current_app_id |-> {None, <<"amazon">>, <<LIVE_TV_APP_ID>>, <<"com.webos.app.hdmi1">>},
     sound_output |-> {None, <<"tv_speaker">>},
     muted |-> BOOLEAN,
     volume |-> {None, <<10>>},
     current_channel |-> {None, <<"BBC">>},
     get_power_state |-> {"Active", "Suspend", "raise"},
     get_sound_output |-> {"tv_speaker", "raise"}]

\* the parts of a device report that a push notification and the power state
\* of the handle depend on: the power flag of the client state (a dict, here
\* whether it is non-empty), its media state (the play state of its first
\* entry) and the answer of the power query
PushValues ==
    [power_state |-> BOOLEAN,
     media_state |-> {None, <<"playing">>, <<"paused">>},
     get_power_state |-> {"Active", "Suspend", "raise"},
     current_app_id |-> {None, <<"amazon">>}]

\* the state of a transport client that has received nothing yet
NoReport ==
    [apps |-> {}, inputs |-> {}, current_app_id |-> None, sound_output |-> None,
     muted |-> FALSE, volume |-> None, current_channel |-> None,
     power_state |-> FALSE, media_state |-> None,
     get_power_state |-> "Suspend", get_sound_output |-> "tv_speaker"]

\* LGDevice.__init__: the cached snapshot of a new handle
NewSnapshot ==
    [sources |-> <<>>, active_source |-> None, sound_output |-> None,
     state |-> "OFF", is_volume_muted |-> FALSE, volume |-> <<0>>,
     media_type |-> "VIDEO", media_title |-> "", media_image_url |-> NoUrl,
     media_state |-> None, paused |-> FALSE]

VARIABLES
    now, ticks,
    available, connecting, connect_lock, connect_lock_time, connect_task,
    reconnect_retry, retry_wakeonlan, buffered_callbacks, sources,
    mac_address,
    tvOwner, tvConn, tvIsOn, deviceSource,
    pc, readyQ, cancelReq, cancelled, sleepAt, loopCalls, drainItems, drainCur, drainOld,
    cpc, ctry, cbuf, carg, cid, cwaitOn, cinfo, cres, connectedBy, hadTimeout,
    dpc, chkPending,
    tv, snapshot, updated_data,
    device_config, tvHost, configured_devices,
    config_lock, apc, checkCount,
    registered, orphans, handlerRuns, pushCount, loopWol, superseded,
    cmdCount, extCount, discCount, iters, lim,
    reportCount, sameRuns,
    dstale, accepted, wolFor, drainLog, replayRes, escaped, abandoned

vars == <<now, ticks,
    available, connecting, connect_lock, connect_lock_time, connect_task,
    reconnect_retry, retry_wakeonlan, buffered_callbacks, sources,
    mac_address,
    tvOwner, tvConn, tvIsOn, deviceSource,
    pc, readyQ, cancelReq, cancelled, sleepAt, loopCalls, drainItems, drainCur, drainOld,
    cpc, ctry, cbuf, carg, cid, cwaitOn, cinfo, cres, connectedBy, hadTimeout,
    dpc, chkPending,
    tv, snapshot, updated_data,
    device_config, tvHost, configured_devices,
    config_lock, apc, checkCount,
    registered, orphans, handlerRuns, pushCount, loopWol, superseded,
    cmdCount, extCount, discCount, iters, lim,
    reportCount, sameRuns,
    dstale, accepted, wolFor, drainLog, replayRes, escaped, abandoned>>

\* the current state as one record, so that the blocks of code an action runs
\* through can be written as functions from state to state; cres (the status
\* codes returned) and connectedBy (the CONNECTED events emitted) are the outputs
\* of one step and start empty in each; they and cinfo are recorded only under
\* the specifications whose claims read them (lim.obs)
St ==
    [now |-> now, ticks |-> ticks,
     available |-> available, connecting |-> connecting,
     connect_lock |-> connect_lock, connect_lock_time |-> connect_lock_time,
     connect_task |-> connect_task, reconnect_retry |-> reconnect_retry,
     retry_wakeonlan |-> retry_wakeonlan,
     buffered_callbacks |-> buffered_callbacks, sources |-> sources,
     mac_address |-> mac_address,
     tvOwner |-> tvOwner, tvConn |-> tvConn, tvIsOn |-> tvIsOn,
     deviceSource |-> deviceSource,
     pc |-> pc, readyQ |-> readyQ, cancelReq |-> cancelReq, cancelled |-> cancelled,
     sleepAt |-> sleepAt, loopCalls |-> loopCalls,
     drainItems |-> drainItems, drainCur |-> drainCur, drainOld |-> drainOld,
     cpc |-> cpc, ctry |-> ctry, cbuf |-> cbuf, carg |-> carg, cid |-> cid,
     cwaitOn |-> cwaitOn, cinfo |-> cinfo, hadTimeout |-> hadTimeout,
     cres |-> [k \in Calls |-> NoResult], connectedBy |-> <<>>,
     dpc |-> dpc, chkPending |-> chkPending,
     tv |-> tv, snapshot |-> snapshot, updated_data |-> <<>>,
     device_config |-> device_config, tvHost |-> tvHost,
     configured_devices |-> configured_devices,
     config_lock |-> config_lock, apc |-> apc, checkCount |-> checkCount,
     registered |-> registered, orphans |-> orphans, handlerRuns |-> 0,
     pushCount |-> pushCount, loopWol |-> FALSE, superseded |-> superseded,
     reportCount |-> reportCount, sameRuns |-> sameRuns,
     cmdCount |-> cmdCount, extCount |-> extCount, discCount |-> discCount,
     iters |-> iters, lim |-> lim,
     dstale |-> dstale,
     accepted |-> accepted, wolFor |-> wolFor, drainLog |-> drainLog,
     replayRes |-> replayRes, escaped |-> escaped, abandoned |-> abandoned,
     overflow |-> FALSE]

Set(s) ==
    /\ ~s.overflow
    /\ now' = s.now /\ ticks' = s.ticks
    /\ available' = s.available /\ connecting' = s.connecting
    /\ connect_lock' = s.connect_lock /\ connect_lock_time' = s.connect_lock_time
    /\ connect_task' = s.connect_task /\ reconnect_retry' = s.reconnect_retry
    /\ retry_wakeonlan' = s.retry_wakeonlan
    /\ buffered_callbacks' = s.buffered_callbacks /\ sources' = s.sources
    /\ mac_address' = s.mac_address
    /\ tvOwner' = s.tvOwner /\ tvConn' = s.tvConn /\ tvIsOn' = s.tvIsOn
    /\ deviceSource' = s.deviceSource
    /\ pc' = s.pc /\ readyQ' = s.readyQ /\ cancelReq' = s.cancelReq /\ cancelled' = s.cancelled
    /\ sleepAt' = s.sleepAt /\ loopCalls' = s.loopCalls
    /\ drainItems' = s.drainItems /\ drainCur' = s.drainCur
    /\ drainOld' = s.drainOld
    /\ cpc' = s.cpc /\ ctry' = s.ctry /\ cbuf' = s.cbuf /\ carg' = s.carg /\ cid' = s.cid
    /\ cwaitOn' = s.cwaitOn /\ cinfo' = IF s.lim.obs THEN s.cinfo ELSE cinfo
    /\ cres' = IF s.lim.obs THEN s.cres ELSE cres
    /\ connectedBy' = IF s.lim.obs THEN s.connectedBy ELSE connectedBy
    /\ hadTimeout' = IF s.lim.obs THEN s.hadTimeout ELSE hadTimeout
    /\ dpc' = s.dpc /\ chkPending' = s.chkPending
    /\ tv' = s.tv /\ snapshot' = s.snapshot /\ updated_data' = s.updated_data
    /\ device_config' = s.device_config /\ tvHost' = s.tvHost
    /\ configured_devices' = s.configured_devices
    /\ config_lock' = s.config_lock /\ apc' = s.apc /\ checkCount' = s.checkCount
    /\ registered' = s.registered /\ orphans' = s.orphans
    /\ handlerRuns' = s.handlerRuns /\ pushCount' = s.pushCount
    /\ loopWol' = s.loopWol /\ superseded' = s.superseded
    /\ reportCount' = s.reportCount /\ sameRuns' = s.sameRuns
    /\ cmdCount' = s.cmdCount /\ extCount' = s.extCount /\ discCount' = s.discCount
    /\ iters' = s.iters /\ lim' = s.lim
    /\ dstale' = s.dstale
    /\ accepted' = s.accepted /\ wolFor' = s.wolFor /\ drainLog' = s.drainLog
    /\ replayRes' = s.replayRes /\ escaped' = s.escaped /\ abandoned' = s.abandoned

\* LGDevice.__init__: the handle right after construction, for a device whose
\* hardware address the setup has stored, and an environment with budgets L
InitWith(L) ==
    /\ lim = L
    /\ now = 0 /\ ticks = 0
    /\ available = TRUE /\ connecting = FALSE
    /\ connect_lock = FALSE /\ connect_lock_time = 0
    /\ connect_task = NoTask /\ reconnect_retry = 0
    /\ retry_wakeonlan = FALSE
    /\ buffered_callbacks = [t \in {} |-> NoEntry] /\ sources = {}
    /\ mac_address = TRUE
    /\ tvOwner = NoTask /\ tvConn = FALSE /\ tvIsOn = FALSE
    /\ deviceSource = "none"
    /\ pc = [p \in Attempts |-> "none"] /\ readyQ = <<>>
    /\ cancelReq = [l \in Loops |-> FALSE]
    /\ cancelled = [l \in Loops |-> FALSE]
    /\ sleepAt = [l \in Loops |-> 0]
    /\ loopCalls = [l \in Loops |-> 0]
    /\ registered = FALSE /\ orphans = 0 /\ handlerRuns = 0 /\ pushCount = 0
    /\ loopWol = FALSE /\ superseded = {}
    /\ drainItems = [p \in Attempts |-> <<>>]
    /\ drainCur = [p \in Attempts |-> NoEntry]
    /\ drainOld = [p \in Attempts |-> {}]
    /\ cpc = [k \in Calls |-> "none"]
    /\ ctry = [k \in Calls |-> 1]
    /\ cbuf = [k \in Calls |-> FALSE]
    /\ carg = [k \in Calls |-> "none"]
    /\ cid = [k \in Calls |-> 0]
    /\ cwaitOn = [k \in Calls |-> NoTask]
    /\ cinfo = [k \in Calls |-> NoInfo]
    /\ cres = [k \in Calls |-> NoResult]
    /\ connectedBy = <<>> /\ hadTimeout = FALSE
    /\ dpc = "none" /\ chkPending = 0
    /\ tv = NoReport /\ snapshot = NewSnapshot /\ updated_data = <<>>
    /\ device_config = FirstConfig /\ tvHost = FirstConfig
    /\ configured_devices = [id \in {DeviceId} |-> FirstHandle]
    /\ config_lock = FALSE /\ apc = [h \in Checks |-> "none"] /\ checkCount = 0
    /\ reportCount = 0 /\ sameRuns = 0
    /\ cmdCount = 0 /\ extCount = 0 /\ discCount = 0 /\ iters = 0
    /\ dstale = FALSE
    /\ accepted = {} /\ wolFor = {} /\ drainLog = <<>>
    /\ replayRes = {} /\ escaped = FALSE /\ abandoned = FALSE

Init ==
    InitWith([ext |-> MaxExt, disc |-> MaxDisc, cmds |-> MaxCmds,
              ticks |-> MaxTicks, iters |-> MaxIter, obs |-> FALSE, push |-> 0])

\* ---- helpers on the buffer (a dict keyed by capture time) ----
Put(buf, t, e) == [x \in (DOMAIN buf) \cup {t} |-> IF x = t THEN e ELSE buf[x]]

Del(buf, t) == [x \in (DOMAIN buf) \ {t} |-> buf[x]]

MinKey(S) == CHOOSE m \in S : \A x \in S : m <= x

RECURSIVE SortedItems(_)
\* dict(sorted(self._buffered_callbacks.items())): the entries by ascending key
SortedItems(buf) ==
    IF DOMAIN buf = {} THEN <<>>
    ELSE LET m == MinKey(DOMAIN buf)
         IN <<<<m, buf[m]>>>> \o SortedItems(Del(buf, m))

\* ---- the retry loop task ----
FreeLoops(s) == {l \in Loops : s.pc[l] = "none" /\ s.connect_task # l}

\* self._connect_task = asyncio.create_task(self._connect_loop())
SpawnLoop(s) ==
    IF FreeLoops(s) = {} THEN [s EXCEPT !.overflow = TRUE]
    ELSE LET l == CHOOSE x \in FreeLoops(s) : TRUE
         IN [s EXCEPT !.pc[l] = "ready", !.readyQ = Append(s.readyQ, l),
                      !.connect_task = l, !.loopCalls[l] = 0,
                      !.cancelReq[l] = FALSE, !.cancelled[l] = FALSE]

\* a task object that ends wakes the callers awaiting shield(task)
WakeWaiters(l, s, how) ==
    [s EXCEPT !.cpc = [k \in Calls |->
        IF s.cpc[k] = "wait" /\ s.cwaitOn[k] = l THEN how ELSE s.cpc[k]]]

\* the end of _connect_loop, after the while loop is left
LoopExit(l, s) ==
    WakeWaiters(l, [s EXCEPT !.retry_wakeonlan = FALSE, !.connect_task = NoTask,
                             !.reconnect_retry = 0, !.pc[l] = "none",
                             !.sleepAt[l] = 0], "woken")

\* no request of the driver or of a command is still being served
Quiet(s) ==
    /\ \A c \in Conns : s.pc[c] = "none"
    /\ \A k \in Calls : s.cpc[k] = "none"
    /\ s.chkPending = 0

\* _connect_loop from the return of connect() to the next sleep or to the exit;
\* abandoned records that the loop gave up at the retry ceiling, loopWol that
\* the loop called wakeonlan() in this step
AfterConnect(l, s) ==
    IF s.tvIsOn THEN LoopExit(l, s)
    ELSE LET s1 == [s EXCEPT !.reconnect_retry = s.reconnect_retry + 1]
         IN IF s1.reconnect_retry > CONNECTION_RETRIES
            THEN LoopExit(l, [s1 EXCEPT !.abandoned = Quiet(s1)])
            ELSE [s1 EXCEPT !.pc[l] = "sleep", !.sleepAt[l] = s1.now,
                            !.loopWol = s1.retry_wakeonlan]

\* connect() returns to its caller: the loop goes on, another task ends
Return(p, s) ==
    IF p \in Loops THEN AfterConnect(p, s) ELSE [s EXCEPT !.pc[p] = "none"]

\* the finally block without the CONNECTED event
FinallySilent(p, s) ==
    Return(p, [s EXCEPT !.connecting = FALSE, !.connect_lock = FALSE,
                        !.tvOwner = IF s.tvOwner = p THEN NoTask ELSE s.tvOwner,
                        !.drainItems[p] = <<>>, !.drainCur[p] = NoEntry,
                        !.drainOld[p] = {}])

\* the finally block without the release of the lock
FinallyKeepsLock(p, s) ==
    Return(p, [s EXCEPT !.connecting = FALSE,
                        !.connectedBy = Append(s.connectedBy, p),
                        !.tvOwner = IF s.tvOwner = p THEN NoTask ELSE s.tvOwner,
                        !.drainItems[p] = <<>>, !.drainCur[p] = NoEntry,
                        !.drainOld[p] = {}])

\* the finally block of connect()
Finally(p, s) ==
    Return(p, [s EXCEPT !.connecting = FALSE, !.connect_lock = FALSE,
                        !.connectedBy = Append(s.connectedBy, p),
                        !.tvOwner = IF s.tvOwner = p THEN NoTask ELSE s.tvOwner,
                        !.drainItems[p] = <<>>, !.drainCur[p] = NoEntry,
                        !.drainOld[p] = {}])

\* the two except blocks of connect(), then the finally block
ConnectFailed(p, s) ==
    LET s1 == [s EXCEPT !.available = FALSE]
    IN Finally(p, IF s1.connect_task = NoTask THEN SpawnLoop(s1) ELSE s1)

\* the lock test that lets go of no lock, however long it has been held
LockedOutForEver(s) == s.connect_lock

\* the test at the head of connect(): the lock is held and has not been held for
\* longer than CONNECT_LOCK_TIMEOUT; a lock held for longer is released
LockedOut(s) ==
    s.connect_lock /\ ~(s.now - s.connect_lock_time > CONNECT_LOCK_TIMEOUT)

\* self._tv = WebOsClient(...): the handle gets a new client that has no callback
\* yet; the client it had is not disconnected, and when it is connected with its
\* state callback registered its session goes on receiving push messages
\* (sessions are followed under the specifications that deliver push messages)
NewClient(s) ==
    [s EXCEPT !.registered = FALSE,
              !.orphans = IF s.lim.push > 0 /\ s.tvConn /\ s.registered
                          THEN s.orphans + 1 ELSE s.orphans]

\* connect() with the return of a locked-out call inside the try block, so
\* that the finally block runs for it
ConnectEnterThroughFinally(p, s) ==
    IF LockedOut(s)
    THEN Finally(p, s)
    ELSE [NewClient(s) EXCEPT
                   !.connect_lock = TRUE, !.connect_lock_time = s.now,
                   !.connecting = TRUE,
                   !.tvOwner = p, !.tvConn = FALSE, !.tvIsOn = FALSE,
                   !.tvHost = s.device_config,
                   !.dstale = (s.dpc = "tvdisc"),
                   !.pc[p] = "tvconnect"]

\* await self.connect() in _connect_loop: one more connect attempt of the loop
LoopCall(p, s) ==
    IF p \in Loops THEN [s EXCEPT !.loopCalls[p] = s.loopCalls[p] + 1] ELSE s

\* connect() from its call to the first await on the transport
ConnectEnter(p, s) ==
    IF LockedOut(s)
    THEN Return(p, s)
    ELSE [NewClient(s) EXCEPT
                   !.connect_lock = TRUE, !.connect_lock_time = s.now,
                   !.connecting = TRUE,
                   !.tvOwner = p, !.tvConn = FALSE, !.tvIsOn = FALSE,
                   !.tvHost = s.device_config,
                   !.dstale = (s.dpc = "tvdisc"),
                   !.pc[p] = "tvconnect"]

\* the lifetime test with the boundary left out
FreshStrict(t, timestamp) == t - timestamp < BUFFER_LIFETIME

\* time.time() - timestamp <= BUFFER_LIFETIME
Fresh(t, timestamp) == t - timestamp <= BUFFER_LIFETIME

\* whether the invoked function reaches an await: select_source_deferred returns
\* at once when the device is not reported on or the source is not known
Suspends(e, s) ==
    e.fn = "select" => s.tvIsOn /\ s.sources # {} /\ e.src \in s.sources

\* why select_source_deferred returned without a call to the transport
Rejected(s) == IF s.tvIsOn /\ s.sources # {} THEN "unknown" ELSE "off"

RECURSIVE RunBuffered(_, _, _)
\* _run_buffered_commands up to the next await of an invoked function
RunBuffered(p, s, items) ==
    IF items = <<>>
    THEN IF DOMAIN s.buffered_callbacks = {} THEN Finally(p, s)
         ELSE RunBuffered(p, s, SortedItems(s.buffered_callbacks))
    ELSE LET timestamp == Head(items)[1]
             value == Head(items)[2]
         IN IF timestamp \notin DOMAIN s.buffered_callbacks
            THEN ConnectFailed(p, s)
            ELSE LET inv == Fresh(s.now, timestamp)
                     s1 == [s EXCEPT
                              !.buffered_callbacks = Del(s.buffered_callbacks, timestamp),
                              !.drainLog = Append(s.drainLog,
                                  [id |-> value.id, fn |-> value.fn,
                                   ts |-> timestamp,
                                   at |-> s.now, inv |-> inv])]
                 IN IF ~inv THEN RunBuffered(p, s1, Tail(items))
                    ELSE IF Suspends(value, s1)
                    THEN [s1 EXCEPT !.pc[p] = "invoke",
                                    !.drainItems[p] = Tail(items),
                                    !.drainCur[p] = value]
                    ELSE RunBuffered(p,
                            [s1 EXCEPT !.replayRes = s1.replayRes \cup
                                {[id |-> value.id, res |-> Rejected(s1)]}],
                            Tail(items))

\* _update_sources on the key set of the source dict
UpdateSources(cur, rep) ==
    IF rep = {} /\ cur # {} THEN cur
    ELSE IF "Live TV" \notin rep THEN rep \cup {"Live TV"}
    ELSE rep

\* ---- actions of a connect attempt ----
\* the event loop runs the first step of a task it was handed before it looks at
\* the transport or at its timers again: no task is waiting for its first step
NoReady == \A p \in Attempts : pc[p] # "ready"

\* a task runs its first step: connect() is entered. The event loop runs the
\* first steps of the tasks it was handed in the order of their creation
AttemptStart(p) ==
    /\ pc[p] = "ready" /\ Head(readyQ) = p
    /\ p \in Loops => ~cancelReq[p]
    /\ Set(ConnectEnter(p, LoopCall(p, [St EXCEPT !.readyQ = Tail(readyQ)])))

Max(a, b) == IF a >= b THEN a ELSE b

\* await asyncio.sleep(DEFAULT_TIMEOUT) ends, DEFAULT_TIMEOUT or more after it
\* began: the loop enters connect() again
LoopWake(l) ==
    /\ NoReady
    /\ pc[l] = "sleep" /\ ~cancelReq[l]
    /\ iters < lim.iters
    /\ Set(ConnectEnter(l, LoopCall(l,
            [St EXCEPT !.iters = iters + 1,
                       !.now = Max(now, sleepAt[l] + DEFAULT_TIMEOUT),
                       !.sleepAt[l] = 0])))

\* the transport connect of connect() ends: await self._tv.connect(), with its one
\* retry after ERROR_OS_WAIT when the first try raised ClientOSError (nothing of
\* the handle changes between the two tries)
TvConnectDone(p, o) ==
    /\ NoReady
    /\ pc[p] = "tvconnect"
    /\ p \in Loops => ~cancelReq[p]
    /\ \E on \in BOOLEAN :
        LET s == IF o = "ok" /\ tvOwner = p
                 THEN [St EXCEPT !.tvConn = TRUE, !.tvIsOn = on, !.tvOwner = NoTask]
                 ELSE St
        IN CASE o = "ok" ->
                  IF s.tvConn THEN Set([s EXCEPT !.pc[p] = "update"])
                  ELSE on /\ Set(ConnectFailed(p, s))
             [] o = "unusable" ->
                  on /\ Set(ConnectFailed(p, [s EXCEPT !.connect_lock = FALSE]))
             [] o = "raise" ->
                  on /\ Set(ConnectFailed(p, s))

\* _update_states, _update_system and register_websocket_events end; the drain
\* begins, and drainOld keeps the calls that had been buffered by then
UpdateDone(p, o, rep) ==
    /\ NoReady
    /\ pc[p] = "update"
    /\ p \in Loops => ~cancelReq[p]
    /\ o = "ok" => tvConn
    /\ LET s1 == [St EXCEPT !.sources = UpdateSources(sources, rep),
                            !.mac_address = TRUE]
       IN IF o = "ok"
          THEN Set(RunBuffered(p, [s1 EXCEPT !.available = TRUE,
                                             !.registered = TRUE,
                                             !.drainOld[p] = accepted], <<>>))
          ELSE Set(ConnectFailed(p, s1))

\* the awaited buffered function ends
InvokeDone(p, o) ==
    /\ NoReady
    /\ pc[p] = "invoke"
    /\ p \in Loops => ~cancelReq[p]
    /\ o = "ok" => tvConn
    /\ LET e == drainCur[p]
           s0 == [St EXCEPT !.replayRes = replayRes \cup {[id |-> e.id, res |-> o]}]
           s1 == IF o = "ok" /\ e.fn = "select"
                 THEN [s0 EXCEPT !.deviceSource = e.src]
                 ELSE IF o = "ok" /\ e.fn = "poweroff"
                 THEN [s0 EXCEPT !.snapshot.state = "OFF"]
                 ELSE s0
       IN IF o = "cancel" /\ e.fn # "select"
          THEN Set(ConnectFailed(p, s1))
          ELSE Set(RunBuffered(p, s1, drainItems[p]))

\* a cancelled loop task is resumed with CancelledError at its await
DeliverCancel(l) ==
    /\ cancelReq[l] /\ pc[l] # "none"
    /\ LET s == [St EXCEPT !.cancelReq[l] = FALSE]
       IN CASE pc[l] = "ready" ->
                 /\ Head(readyQ) = l
                 /\ Set(WakeWaiters(l, [s EXCEPT !.pc[l] = "none",
                                                 !.readyQ = Tail(readyQ)],
                                     "wokencancel"))
            [] pc[l] = "sleep" -> Set(LoopExit(l, s))
            [] pc[l] = "invoke" /\ drainCur[l].fn = "select" ->
                 Set(RunBuffered(l,
                        [s EXCEPT !.replayRes = replayRes \cup
                            {[id |-> drainCur[l].id, res |-> "cancel"]}],
                        drainItems[l]))
            [] OTHER -> Set(ConnectFailed(l, s))

\* ---- the driver's requests ----
\* _LOOP.create_task(device.connect())
ExtConnect(c) ==
    /\ extCount < lim.ext
    /\ pc[c] = "none" /\ \A x \in Conns : pc[x] = "none" => c[2] <= x[2]
    /\ Set([St EXCEPT !.pc[c] = "ready", !.readyQ = Append(readyQ, c),
                      !.extCount = extCount + 1,
                      !.abandoned = FALSE])

\* the driver makes a new handle for the record instead of updating the one it has
UpdateConfigNewHandle(s, cfg) ==
    [s EXCEPT !.device_config = cfg,
              !.configured_devices[cfg.id] = <<"LGDevice", 2>>,
              !.buffered_callbacks = [t \in {} |-> NoEntry],
              !.available = TRUE, !.connect_task = NoTask, !.reconnect_retry = 0]

\* update_config(device_config) on the handle registered for the id
UpdateConfig(s, cfg) == [s EXCEPT !.device_config = cfg]

\* on_device_updated(cfg): _configure_new_device(cfg, connect=True) for an id
\* that is registered updates the handle and starts a connect() task
DeviceUpdated(cfg, c) ==
    /\ extCount < lim.ext
    /\ cfg.id \in DOMAIN configured_devices
    /\ pc[c] = "none" /\ \A x \in Conns : pc[x] = "none" => c[2] <= x[2]
    /\ Set([UpdateConfig(St, cfg) EXCEPT
                !.pc[c] = "ready", !.readyQ = Append(readyQ, c),
                !.extCount = extCount + 1, !.abandoned = FALSE])

\* disconnect() from its call to await self._tv.disconnect()
DisconnectStart ==
    /\ dpc = "none" /\ discCount < lim.disc
    /\ LET s == [St EXCEPT !.dpc = "tvdisc", !.discCount = discCount + 1,
                           !.dstale = FALSE, !.registered = FALSE]
       IN IF connect_task # NoTask /\ pc[connect_task] # "none"
          THEN Set([s EXCEPT !.cancelReq[connect_task] = TRUE,
                             !.cancelled[connect_task] = TRUE])
          ELSE Set(s)

\* await self._tv.disconnect() ends: except and finally blocks of disconnect()
DisconnectDone(o) ==
    /\ NoReady
    /\ dpc = "tvdisc"
    /\ LET s == IF o = "ok"
                THEN [St EXCEPT !.tvConn = IF dstale THEN tvConn ELSE FALSE]
                ELSE [St EXCEPT !.available = FALSE]
       IN Set([s EXCEPT !.connect_task = NoTask, !.connect_lock = FALSE,
                        !.dpc = "none", !.dstale = FALSE])

\* ---- the retry wrapper around a command ----
\* the wrapper returns a status code to its caller
Returned(k, s) ==
    [s EXCEPT !.cpc[k] = "none", !.ctry[k] = 1, !.cbuf[k] = FALSE,
              !.carg[k] = "none", !.cid[k] = 0, !.cwaitOn[k] = NoTask,
              !.cinfo[k] = NoInfo]

\* the call returns the status code to its caller
Ret(k, s, code) ==
    Returned(k, [s EXCEPT !.cres[k] = [info |-> s.cinfo[k], tries |-> s.ctry[k],
                                       res |-> code]])

\* an exception leaves the wrapper and reaches its caller
Escape(k, s) == [Ret(k, s, "exception") EXCEPT !.escaped = TRUE]

\* the wrapped function is called: set_volume_level returns BAD_REQUEST at once
\* for a volume of None, and the wrapper (or retry_call_command) drops that
\* return value and returns OK; otherwise the function awaits the transport
\* (power_off clears the wake-retry flag and awaits the power query of
\* check_connect)
StartBody(k, s0, at) ==
    LET s == [s0 EXCEPT !.cinfo[k].bodies = s0.cinfo[k].bodies + 1]
    IN IF s.cinfo[k].fn = "set_volume_level" /\ s.cinfo[k].arg = <<>>
       THEN Ret(k, s, "OK")
       ELSE [s EXCEPT !.cpc[k] = at, !.cinfo[k].sent = TRUE,
                      !.retry_wakeonlan = IF s.carg[k] = "power_off" THEN FALSE
                                          ELSE s.retry_wakeonlan]

\* retry_call_command after its sleep(0): buffer the call, or wait for the loop
RccAfterYield(k, s) ==
    IF s.cbuf[k]
    THEN Ret(k, [s EXCEPT
            !.buffered_callbacks =
                Put(s.buffered_callbacks, s.now,
                    [id |-> s.cid[k], fn |-> "cmd", src |-> "none"]),
            !.accepted = s.accepted \cup {s.cid[k]},
            !.cinfo[k].buffered = TRUE], "OK")
    ELSE IF s.connect_task = NoTask THEN [s EXCEPT !.cpc[k] = "raised"]
    ELSE IF s.pc[s.connect_task] = "none" THEN Escape(k, s)
    ELSE [s EXCEPT !.cpc[k] = "wait", !.cwaitOn[k] = s.connect_task,
                   !.cinfo[k].waits = s.cinfo[k].waits + 1]

\* retry_call_command from its call to its first suspension
RccEnter(k, s) ==
    IF s.connect_task = NoTask
    THEN LET s1 == SpawnLoop(s)
         IN [s1 EXCEPT !.cpc[k] = "yield", !.cwaitOn[k] = s1.connect_task,
                       !.cinfo[k].spawned = TRUE]
    ELSE RccAfterYield(k, s)

RECURSIVE Handle(_, _)
\* the except blocks of the wrapper with one more call of retry_call_command
\* before BAD_REQUEST is returned
HandleThirdTry(k, s) ==
    IF s.cpc[k] # "raised" THEN s
    ELSE IF s.ctry[k] <= 2
    THEN Handle(k, RccEnter(k, [s EXCEPT !.ctry[k] = s.ctry[k] + 1, !.cpc[k] = "rcc"]))
    ELSE Ret(k, s, "BAD_REQUEST")

\* the except blocks of the wrapper: an exception of the first try calls
\* retry_call_command again, one of that second call gives BAD_REQUEST
Handle(k, s) ==
    IF s.cpc[k] # "raised" THEN s
    ELSE IF s.ctry[k] = 1 THEN Handle(k, RccEnter(k, [s EXCEPT !.ctry[k] = 2, !.cpc[k] = "rcc"]))
    ELSE Ret(k, s, "BAD_REQUEST")

\* the wrapper of a command fn called with argument arg, to its first suspension
Call(k, b, fn, arg, s0) ==
    LET s == [s0 EXCEPT !.cmdCount = s0.cmdCount + 1, !.cid[k] = s0.cmdCount + 1,
                        !.cbuf[k] = b, !.ctry[k] = 1, !.abandoned = FALSE,
                        !.cinfo[k] = [NoInfo EXCEPT !.fn = fn, !.arg = arg,
                            !.unav = ~s0.available,
                            !.prevto = s0.hadTimeout]]
    IN IF s.available THEN StartBody(k, s, "body")
       ELSE Handle(k, RccEnter(k, s))

\* a wrapped command that takes no argument is called (volume_up, mute, ...)
CmdCall(k, b) ==
    /\ cpc[k] = "none" /\ cmdCount < lim.cmds
    /\ Set(Call(k, b, "cmd", <<>>, St))

\* set_volume_level(volume) is called
SetVolumeCall(k, volume) ==
    /\ cpc[k] = "none" /\ cmdCount < lim.cmds
    /\ Set(Call(k, FALSE, "set_volume_level", volume, St))

\* await asyncio.sleep(0) ends, after the first step of the task just created
CmdYieldDone(k) ==
    /\ cpc[k] = "yield" /\ pc[cwaitOn[k]] # "ready"
    /\ Set(Handle(k, RccAfterYield(k, St)))

\* the timeout turned into a rejection
CmdWaitTimeoutRejects(k) ==
    /\ NoReady
    /\ cpc[k] = "wait"
    /\ Set(Ret(k, [St EXCEPT !.cinfo[k].to = TRUE], "BAD_REQUEST"))

\* the wait without shield(): the timeout cancels the task that is awaited
CmdWaitTimeoutCancels(k) ==
    /\ NoReady
    /\ cpc[k] = "wait"
    /\ Set(StartBody(k, [St EXCEPT !.cinfo[k].to = TRUE,
                                   !.cancelReq[cwaitOn[k]] = TRUE], "rccbody"))

\* asyncio.timeout ends the wait for the connect task: the command is tried anyway
CmdWaitTimeout(k) ==
    /\ NoReady
    /\ cpc[k] = "wait"
    /\ Set(StartBody(k, [St EXCEPT !.cinfo[k].to = TRUE,
                                   !.hadTimeout = hadTimeout \/ cinfo[k].unav],
                      "rccbody"))

\* the caller resumes after the connect task it awaited has ended
CmdResume(k) ==
    /\ cpc[k] \in {"woken", "wokencancel"}
    /\ IF cpc[k] = "woken" THEN Set(StartBody(k, St, "rccbody"))
       ELSE Set(Escape(k, St))

\* set_volume_level after the transport accepted the volume: UPDATE is emitted
\* with the volume that was asked for
VolumeEvent(k, s) ==
    IF s.cinfo[k].fn = "set_volume_level"
    THEN [s EXCEPT !.updated_data = Put(<<>>, "VOLUME", s.cinfo[k].arg)]
    ELSE s

\* a command body that also stores the volume it has set in the cache
CmdBodyDoneCaches(k, o) ==
    /\ NoReady
    /\ cpc[k] \in {"body", "rccbody"} /\ carg[k] # "power_off"
    /\ o = "ok" => tvConn
    /\ CASE o = "ok" ->
              Set(Ret(k, [VolumeEvent(k, St) EXCEPT !.snapshot.volume =
                            IF cinfo[k].fn = "set_volume_level" THEN cinfo[k].arg
                            ELSE snapshot.volume], "OK"))
         [] o = "cancel" -> Set(Escape(k, St))
         [] o = "raise" -> Set(Handle(k, [St EXCEPT !.cpc[k] = "raised"]))

\* the awaited command body ends
CmdBodyDone(k, o) ==
    /\ NoReady
    /\ cpc[k] \in {"body", "rccbody"} /\ carg[k] # "power_off"
    /\ o = "ok" => tvConn
    /\ CASE o = "ok" -> Set(Ret(k, VolumeEvent(k, St), "OK"))
         [] o = "cancel" -> Set(Escape(k, St))
         [] o = "raise" -> Set(Handle(k, [St EXCEPT !.cpc[k] = "raised"]))

\* ---- select_source, power_on, check_connect ----
FreeConns(s) == {c \in Conns : s.pc[c] = "none"}

\* self.event_loop.create_task(self.reconnect())
SpawnReconnect(s) ==
    IF FreeConns(s) = {} THEN [s EXCEPT !.overflow = TRUE]
    ELSE LET c == CHOOSE x \in FreeConns(s) : \A y \in FreeConns(s) : x[2] <= y[2]
         IN [s EXCEPT !.pc[c] = "ready", !.readyQ = Append(s.readyQ, c)]

\* power_on(): wake packet when a hardware address is known, check_connect task;
\* the buffer is left as it is, and superseded records the deferred power-offs
\* that were in it when power_on was called
PowerOn(id, s) ==
    [s EXCEPT !.wolFor = IF s.mac_address THEN s.wolFor \cup {id} ELSE s.wolFor,
              !.superseded = s.superseded \cup
                  {s.buffered_callbacks[t].id : t \in
                      {x \in DOMAIN s.buffered_callbacks :
                          s.buffered_callbacks[x].fn = "poweroff"}},
              !.retry_wakeonlan = TRUE,
              !.chkPending = s.chkPending + 1]

\* the except WebOsTvCommandError block of select_source
BufferSelect(k, S, id, s) ==
    LET s1 == PowerOn(id, s)
        s2 == [s1 EXCEPT
                 !.buffered_callbacks =
                     Put(s1.buffered_callbacks, s1.now,
                         [id |-> id, fn |-> "select", src |-> S]),
                 !.accepted = s1.accepted \cup {id}]
    IN Ret(k, [SpawnReconnect(s2) EXCEPT
                 !.cinfo[k].wol = s.mac_address, !.cinfo[k].buffered = TRUE,
                 !.cinfo[k].spawned = TRUE], "OK")

\* select_source(S) is called
SelectCall(k, S) ==
    /\ cpc[k] = "none" /\ cmdCount < lim.cmds
    /\ LET s == [St EXCEPT !.cmdCount = cmdCount + 1, !.abandoned = FALSE,
                           !.cinfo[k] = [NoInfo EXCEPT
                               !.fn = "select_source", !.arg = <<S>>,
                               !.unav = ~(tvConn /\ tvIsOn /\ sources # {}),
                               !.known = S \in sources]]
       IN IF tvIsOn /\ sources # {} /\ S \in sources
          THEN Set([s EXCEPT !.cpc[k] = "launch", !.carg[k] = S,
                             !.cid[k] = cmdCount + 1, !.cinfo[k].sent = TRUE])
          ELSE Set(BufferSelect(k, S, cmdCount + 1, s))

\* await self._tv.launch_app / set_input of select_source_deferred ends
SelectDone(k, o) ==
    /\ NoReady
    /\ cpc[k] = "launch"
    /\ o = "ok" => tvConn
    /\ IF o = "ok" THEN Set(Ret(k, [St EXCEPT !.deviceSource = carg[k]], "OK"))
       ELSE Set(BufferSelect(k, carg[k], cid[k], St))

\* a check_connect task created by power_on ends
CheckConnectDone(o) ==
    /\ NoReady
    /\ chkPending > 0
    /\ o = "on" => tvConn
    /\ LET s == [St EXCEPT !.chkPending = chkPending - 1]
       IN IF o = "off" /\ connect_task = NoTask THEN Set(SpawnLoop(s)) ELSE Set(s)

\* the clock advances
Tick(d) ==
    /\ NoReady
    /\ ticks < lim.ticks
    /\ Set([St EXCEPT !.now = now + d, !.ticks = ticks + 1])

\* the sessions that deliver a push message to the handle: the one of the
\* current client when it is connected with its callback registered, and those
\* of the clients the handle had before
LiveSessions(s) == s.orphans + (IF s.tvConn /\ s.registered THEN 1 ELSE 0)

\* the device sends one push message: each session that is alive with the state
\* callback registered calls _on_state_changed of the handle once
PushMessage ==
    /\ NoReady
    /\ pushCount < lim.push
    /\ LiveSessions(St) > 0
    /\ Set([St EXCEPT !.pushCount = pushCount + 1,
                      !.handlerRuns = LiveSessions(St)])

\* the device or the network closes the session of a client the handle had before
SessionClosed ==
    /\ NoReady
    /\ orphans > 0
    /\ Set([St EXCEPT !.orphans = orphans - 1])

\* ---- power_on and power_off ----
\* power_on() is called: wake packet, wake-retry flag, check_connect task
PowerOnCall ==
    /\ cmdCount < lim.cmds
    /\ Set(PowerOn(cmdCount + 1, [St EXCEPT !.cmdCount = cmdCount + 1,
                                            !.abandoned = FALSE]))

\* power_off() is called through the retry wrapper
PowerOffCall(k) ==
    /\ cpc[k] = "none" /\ cmdCount < lim.cmds
    /\ Set(Call(k, FALSE, "power_off", <<>>, [St EXCEPT !.carg[k] = "power_off"]))

\* power_off puts power_off_deferred in the buffer and returns OK
BufferPowerOff(k, s) ==
    Ret(k, [s EXCEPT
            !.buffered_callbacks =
                Put(s.buffered_callbacks, s.now,
                    [id |-> s.cid[k], fn |-> "poweroff", src |-> "none"]),
            !.accepted = s.accepted \cup {s.cid[k]},
            !.cinfo[k].buffered = TRUE], "OK")

\* check_connect inside power_off ends with the state lg: when the device is ON
\* the power-off request is sent, otherwise power_off_deferred is buffered;
\* check_connect starts the retry loop when it found the device OFF
PowerOffChecked(k, lg) ==
    /\ NoReady
    /\ cpc[k] \in {"body", "rccbody"} /\ carg[k] = "power_off"
    /\ lg \in {"ON", "STANDBY"} => tvConn
    /\ CASE lg = "ON" -> Set([St EXCEPT !.cpc[k] = "poweroff"])
         [] lg = "STANDBY" -> Set(BufferPowerOff(k, St))
         [] lg = "OFF" ->
              Set(BufferPowerOff(k, IF connect_task = NoTask THEN SpawnLoop(St)
                                    ELSE St))

\* await self._tv.command("request", ep.POWER_OFF) of power_off ends
PowerOffSent(k, o) ==
    /\ NoReady
    /\ cpc[k] = "poweroff"
    /\ o = "ok" => tvConn
    /\ IF o = "ok" THEN Set(Ret(k, [St EXCEPT !.snapshot.state = "OFF"], "OK"))
       ELSE Set(Handle(k, [St EXCEPT !.cpc[k] = "raised"]))

\* ---- the connection supervisor and the wrapped commands ----
Next ==
    \/ \E p \in Attempts : AttemptStart(p)
    \/ \E l \in Loops : LoopWake(l)
    \/ \E p \in Attempts, o \in {"ok", "unusable", "raise"} : TvConnectDone(p, o)
    \/ \E p \in Attempts, o \in {"ok", "raise"}, rep \in Reports : UpdateDone(p, o, rep)
    \/ \E l \in Loops : DeliverCancel(l)
    \/ \E c \in Conns : ExtConnect(c)
    \/ DisconnectStart
    \/ \E o \in {"ok", "raise"} : DisconnectDone(o)
    \/ \E k \in Calls, b \in Bufferize : CmdCall(k, b)
    \/ \E k \in Calls : CmdYieldDone(k)
    \/ \E k \in Calls : CmdWaitTimeout(k)
    \/ \E k \in Calls : CmdResume(k)
    \/ \E k \in Calls, o \in {"ok", "raise", "cancel"} : CmdBodyDone(k, o)

Spec == Init /\ [][Next]_vars

\* ---- select_source on a device that is off, and the replay of its entry ----
InitReplay ==
    InitWith([ext |-> 0, disc |-> 0, cmds |-> ReplayCmds,
              ticks |-> ReplayTicks, iters |-> ReplayIter, obs |-> FALSE, push |-> 0])

NextReplay ==
    \/ \E p \in Attempts : AttemptStart(p)
    \/ \E l \in Loops : LoopWake(l)
    \/ \E p \in Attempts, o \in {"ok", "unusable", "raise"} : TvConnectDone(p, o)
    \/ \E p \in Attempts, o \in {"ok", "raise"}, rep \in Reports : UpdateDone(p, o, rep)
    \/ \E p \in Attempts, o \in {"ok", "raise", "cancel"} : InvokeDone(p, o)
    \/ \E k \in Calls, S \in SelectArgs : SelectCall(k, S)
    \/ \E k \in Calls, o \in {"ok", "raise"} : SelectDone(k, o)
    \/ \E o \in {"on", "off"} : CheckConnectDone(o)
    \/ \E d \in TickSteps : Tick(d)

SpecReplay == InitReplay /\ [][NextReplay]_vars

\* ---- drains that overlap, on a device that is reachable and on, while the
\* check_connect tasks of power_on are still waiting for their answer ----
InitDrain ==
    InitWith([ext |-> 0, disc |-> DrainDisc, cmds |-> DrainCmds,
              ticks |-> DrainTicks, iters |-> 0, obs |-> FALSE, push |-> 0])

NextDrain ==
    \/ \E c \in Conns : AttemptStart(c)
    \/ \E c \in Conns : TvConnectDone(c, "ok")
    \/ \E c \in Conns : UpdateDone(c, "ok", {"HDMI1"})
    \/ \E c \in Conns, o \in {"ok", "raise"} : InvokeDone(c, o)
    \/ DisconnectStart
    \/ DisconnectDone("ok")
    \/ \E k \in Calls, S \in SelectArgs : SelectCall(k, S)
    \/ \E k \in Calls, o \in {"ok", "raise"} : SelectDone(k, o)
    \/ CheckConnectDone("on")
    \/ Tick(1)

SpecDrain == InitDrain /\ [][NextDrain]_vars

\* ---- the retry loop against a device that never answers ----
InitRetry ==
    InitWith([ext |-> RetryExt, disc |-> RetryDisc, cmds |-> 0,
              ticks |-> 0, iters |-> RetryIter, obs |-> FALSE, push |-> 0])

NextRetry ==
    \/ \E p \in Attempts : AttemptStart(p)
    \/ \E l \in Loops : LoopWake(l)
    \/ \E p \in Attempts, o \in {"unusable", "raise"} : TvConnectDone(p, o)
    \/ \E l \in Loops : DeliverCancel(l)
    \/ \E c \in Conns : ExtConnect(c)
    \/ DisconnectStart
    \/ \E o \in {"ok", "raise"} : DisconnectDone(o)

SpecRetry == InitRetry /\ [][NextRetry]_vars

\* ---- wrapped commands on a handle that is reconnecting ----
InitWait ==
    InitWith([ext |-> WaitExt, disc |-> 0, cmds |-> WaitCmds,
              ticks |-> 0, iters |-> WaitIter, obs |-> TRUE, push |-> 0])

NextWait ==
    \/ \E p \in Attempts : AttemptStart(p)
    \/ \E l \in Loops : LoopWake(l)
    \/ \E p \in Attempts, o \in {"ok", "raise"} : TvConnectDone(p, o)
    \/ \E p \in Attempts, o \in {"ok", "raise"} : UpdateDone(p, o, {"HDMI1"})
    \/ \E c \in Conns : ExtConnect(c)
    \/ \E k \in Calls : CmdCall(k, FALSE)
    \/ \E k \in Calls, volume \in VolumeArgs : SetVolumeCall(k, volume)
    \/ \E k \in Calls : CmdYieldDone(k)
    \/ \E k \in Calls : CmdWaitTimeout(k)
    \/ \E k \in Calls : CmdResume(k)
    \/ \E k \in Calls, o \in {"ok", "raise"} : CmdBodyDone(k, o)

SpecWait == InitWait /\ [][NextWait]_vars

\* ---- commands and their arguments, on a handle that connects or fails ----
InitInput ==
    InitWith([ext |-> InputExt, disc |-> 0, cmds |-> InputCmds,
              ticks |-> 0, iters |-> InputIter, obs |-> TRUE, push |-> 0])

NextInput ==
    \/ \E p \in Attempts : AttemptStart(p)
    \/ \E l \in Loops : LoopWake(l)
    \/ \E p \in Attempts, o \in {"ok", "raise"} : TvConnectDone(p, o)
    \/ \E p \in Attempts, o \in {"ok", "raise"}, rep \in Reports : UpdateDone(p, o, rep)
    \/ \E p \in Attempts, o \in {"ok", "raise"} : InvokeDone(p, o)
    \/ \E c \in Conns : ExtConnect(c)
    \/ \E k \in Calls, volume \in VolumeArgs : SetVolumeCall(k, volume)
    \/ \E k \in Calls, S \in Requests : SelectCall(k, S)
    \/ \E k \in Calls, o \in {"ok", "raise"} : SelectDone(k, o)
    \/ \E o \in {"on", "off"} : CheckConnectDone(o)
    \/ \E k \in Calls : CmdYieldDone(k)
    \/ \E k \in Calls : CmdWaitTimeout(k)
    \/ \E k \in Calls : CmdResume(k)
    \/ \E k \in Calls, o \in {"ok", "raise"} : CmdBodyDone(k, o)

SpecInput == InitInput /\ [][NextInput]_vars

\* ---- connect attempts that succeed, fail or are cancelled ----
InitAttempt ==
    InitWith([ext |-> AttemptExt, disc |-> AttemptDisc, cmds |-> 0,
              ticks |-> 0, iters |-> AttemptIter, obs |-> TRUE, push |-> 0])

NextAttempt ==
    \/ \E p \in Attempts : AttemptStart(p)
    \/ \E l \in Loops : LoopWake(l)
    \/ \E p \in Attempts, o \in {"ok", "unusable", "raise"} : TvConnectDone(p, o)
    \/ \E p \in Attempts, o \in {"ok", "raise"}, rep \in Reports : UpdateDone(p, o, rep)
    \/ \E l \in Loops : DeliverCancel(l)
    \/ \E c \in Conns : ExtConnect(c)
    \/ DisconnectStart
    \/ \E o \in {"ok", "raise"} : DisconnectDone(o)

SpecAttempt == InitAttempt /\ [][NextAttempt]_vars

\* ---- one retry loop from its creation to the retry ceiling, with transport
\* connects that succeed or fail and no disconnect() ----
InitLoop ==
    InitWith([ext |-> LoopExt, disc |-> 0, cmds |-> 0,
              ticks |-> 0, iters |-> LoopIter, obs |-> FALSE, push |-> 0])

NextLoop ==
    \/ \E p \in Attempts : AttemptStart(p)
    \/ \E l \in Loops : LoopWake(l)
    \/ \E p \in Attempts, o \in {"ok", "raise"} : TvConnectDone(p, o)
    \/ \E p \in Attempts, o \in {"ok", "raise"}, rep \in Reports : UpdateDone(p, o, rep)
    \/ \E c \in Conns : ExtConnect(c)

SpecLoop == InitLoop /\ [][NextLoop]_vars

\* ---- connect attempts on a handle whose device sends push messages ----
InitSession ==
    InitWith([ext |-> SessionExt, disc |-> SessionDisc, cmds |-> 0,
              ticks |-> 0, iters |-> SessionIter, obs |-> FALSE,
              push |-> SessionPush])

NextSession ==
    \/ \E p \in Attempts : AttemptStart(p)
    \/ \E l \in Loops : LoopWake(l)
    \/ \E p \in Attempts, o \in {"ok", "raise"} : TvConnectDone(p, o)
    \/ \E p \in Attempts, o \in {"ok", "raise"}, rep \in Reports : UpdateDone(p, o, rep)
    \/ \E l \in Loops : DeliverCancel(l)
    \/ \E c \in Conns : ExtConnect(c)
    \/ DisconnectStart
    \/ \E o \in {"ok", "raise"} : DisconnectDone(o)
    \/ PushMessage
    \/ SessionClosed

SpecSession == InitSession /\ [][NextSession]_vars

\* ---- power_off on a device that is off, power_on, and the retry loop ----
InitPower ==
    InitWith([ext |-> 0, disc |-> 0, cmds |-> PowerCmds,
              ticks |-> PowerTicks, iters |-> PowerIter, obs |-> FALSE,
              push |-> 0])

NextPower ==
    \/ \E p \in Attempts : AttemptStart(p)
    \/ \E l \in Loops : LoopWake(l)
    \/ \E p \in Attempts, o \in {"ok", "raise"} : TvConnectDone(p, o)
    \/ \E p \in Attempts, o \in {"ok", "raise"} : UpdateDone(p, o, {"HDMI1"})
    \/ \E p \in Attempts, o \in {"ok", "raise"} : InvokeDone(p, o)
    \/ PowerOnCall
    \/ \E k \in Calls : PowerOffCall(k)
    \/ \E k \in Calls, lg \in {"ON", "STANDBY", "OFF"} : PowerOffChecked(k, lg)
    \/ \E k \in Calls, o \in {"ok", "raise"} : PowerOffSent(k, o)
    \/ \E k \in Calls : CmdYieldDone(k)
    \/ \E k \in Calls : CmdWaitTimeout(k)
    \/ \E k \in Calls : CmdResume(k)
    \/ \E o \in {"on", "off"} : CheckConnectDone(o)
    \/ \E d \in TickSteps : Tick(d)

SpecPower == InitPower /\ [][NextPower]_vars

\* ---- the wake-retry flag: power_on, power_off, the retry loop, disconnect ----
InitWake ==
    InitWith([ext |-> 0, disc |-> WakeDisc, cmds |-> WakeCmds,
              ticks |-> 0, iters |-> WakeIter, obs |-> FALSE, push |-> 0])

NextWake ==
    \/ \E p \in Attempts : AttemptStart(p)
    \/ \E l \in Loops : LoopWake(l)
    \/ \E p \in Attempts, o \in {"ok", "raise"} : TvConnectDone(p, o)
    \/ \E p \in Attempts, o \in {"ok", "raise"} : UpdateDone(p, o, {"HDMI1"})
    \/ \E p \in Attempts, o \in {"ok", "raise"} : InvokeDone(p, o)
    \/ \E l \in Loops : DeliverCancel(l)
    \/ DisconnectStart
    \/ \E o \in {"ok", "raise"} : DisconnectDone(o)
    \/ PowerOnCall
    \/ \E o \in {"on", "off"} : CheckConnectDone(o)
    \/ \E k \in Calls : PowerOffCall(k)
    \/ \E k \in Calls, lg \in {"ON", "STANDBY", "OFF"} : PowerOffChecked(k, lg)
    \/ \E k \in Calls, o \in {"ok", "raise"} : PowerOffSent(k, o)
    \/ \E k \in Calls : CmdYieldDone(k)
    \/ \E k \in Calls : CmdWaitTimeout(k)
    \/ \E k \in Calls : CmdResume(k)

SpecWake == InitWake /\ [][NextWake]_vars

\* ---- connect attempts and the connect lock, with a clock that advances ----
InitLock ==
    InitWith([ext |-> LockExt, disc |-> LockDisc, cmds |-> 0,
              ticks |-> LockTicks, iters |-> LockIter, obs |-> TRUE, push |-> 0])

NextLock ==
    \/ \E p \in Attempts : AttemptStart(p)
    \/ \E l \in Loops : LoopWake(l)
    \/ \E p \in Attempts, o \in {"ok", "unusable", "raise"} : TvConnectDone(p, o)
    \/ \E p \in Attempts, o \in {"ok", "raise"}, rep \in Reports : UpdateDone(p, o, rep)
    \/ \E l \in Loops : DeliverCancel(l)
    \/ \E c \in Conns : ExtConnect(c)
    \/ DisconnectStart
    \/ \E o \in {"ok", "raise"} : DisconnectDone(o)
    \/ \E d \in TickSteps : Tick(d)

SpecLock == InitLock /\ [][NextLock]_vars

\* ---- configuration updates of a handle that buffers and reconnects ----
InitConfig ==
    InitWith([ext |-> ConfigExt, disc |-> 0, cmds |-> ConfigCmds,
              ticks |-> 0, iters |-> ConfigIter, obs |-> FALSE, push |-> 0])

NextConfig ==
    \/ \E p \in Attempts : AttemptStart(p)
    \/ \E l \in Loops : LoopWake(l)
    \/ \E p \in Attempts, o \in {"ok", "raise"} : TvConnectDone(p, o)
    \/ \E p \in Attempts, o \in {"ok", "raise"}, rep \in Reports : UpdateDone(p, o, rep)
    \/ \E p \in Attempts, o \in {"ok", "raise"} : InvokeDone(p, o)
    \/ \E cfg \in Configs, c \in Conns : DeviceUpdated(cfg, c)
    \/ \E k \in Calls, S \in SelectArgs : SelectCall(k, S)
    \/ \E k \in Calls, o \in {"ok", "raise"} : SelectDone(k, o)
    \/ \E o \in {"on", "off"} : CheckConnectDone(o)

SpecConfig == InitConfig /\ [][NextConfig]_vars

\* ---- the address check of the configuration (config.py) ----
\* handle_address_change up to its await of the discovery. The configuration
\* holds the one device of the model, so devices.empty() is false; a call that
\* finds the lock held returns at once, and the lock, which is free and has no
\* waiter, is acquired without a suspension
AddressCheckCall(h) ==
    /\ apc[h] = "none" /\ checkCount < AddressChecks
    /\ IF config_lock
       THEN Set([St EXCEPT !.checkCount = checkCount + 1])
       ELSE Set([St EXCEPT !.checkCount = checkCount + 1,
                           !.config_lock = TRUE, !.apc[h] = "discover"])

\* await discover.async_identify_lg_devices() ends. An exception leaves
\* handle_address_change at once; a list in which the device is missing (host
\* None) or has the address of its record changes nothing; a new address is
\* written into the record, the update handler (on_device_updated) passes the
\* record to the handle and creates a connect() task, and the lock is released
DiscoverDone(h, o, host) ==
    /\ NoReady
    /\ apc[h] = "discover"
    /\ LET s == [St EXCEPT !.apc[h] = "none"]
           cfg == [device_config EXCEPT !.address = host[1]]
       IN CASE o = "raise" -> host = None /\ Set(s)
            [] o = "ok" /\ host \in {None, <<device_config.address>>} ->
                 Set([s EXCEPT !.config_lock = FALSE])
            [] OTHER ->
                 /\ extCount < lim.ext /\ FreeConns(St) # {}
                 /\ LET c == CHOOSE x \in FreeConns(St) :
                                 \A y \in FreeConns(St) : x[2] <= y[2]
                    IN Set([UpdateConfig(s, cfg) EXCEPT
                              !.config_lock = FALSE,
                              !.pc[c] = "ready", !.readyQ = Append(readyQ, c),
                              !.extCount = extCount + 1, !.abandoned = FALSE])

InitAddress ==
    InitWith([ext |-> AddressExt, disc |-> 0, cmds |-> 0,
              ticks |-> 0, iters |-> AddressIter, obs |-> FALSE, push |-> 0])

NextAddress ==
    \/ \E h \in Checks : AddressCheckCall(h)
    \/ \E h \in Checks, o \in {"ok", "raise"}, host \in Hosts : DiscoverDone(h, o, host)
    \/ \E p \in Attempts : AttemptStart(p)
    \/ \E l \in Loops : LoopWake(l)
    \/ \E p \in Attempts, o \in {"ok", "raise"} : TvConnectDone(p, o)
    \/ \E p \in Attempts, o \in {"ok", "raise"} : UpdateDone(p, o, {"HDMI1"})

SpecAddress == InitAddress /\ [][NextAddress]_vars

\* ---- the state update: the cached snapshot against a device report ----
\* sorted() on a collection of source names
Sorted(S) == SelectSeq(NameOrder, LAMBDA n : n \in S)

\* a reported entry once _update_sources has written its origin into it
WithOrigin(e, is_app) ==
    [x \in (DOMAIN e) \cup {"isApp"} |-> IF x = "isApp" THEN is_app ELSE e[x]]

\* the entry _update_sources makes up for live television
SynthLiveTv == WithOrigin([id |-> LIVE_TV_APP_ID, title |-> "Live TV"], TRUE)

\* the source_list property: the names of the inputs, sorted, and then the
\* names of the applications, sorted
SourceList(srcs) ==
    Sorted({n \in DOMAIN srcs : srcs[n].isApp = FALSE})
        \o Sorted({n \in DOMAIN srcs : srcs[n].isApp = TRUE})

\* the sound_output property
SoundOutput(o) ==
    IF o = None THEN None
    ELSE IF o[1] \in DOMAIN LG_SOUND_OUTPUTS THEN <<LG_SOUND_OUTPUTS[o[1]]>>
    ELSE None

\* a report has an entry for live television: found_live_tv after the two loops
FoundLiveTv(t) ==
    \/ \E app \in t.apps : app.id = LIVE_TV_APP_ID
    \/ \E source \in t.inputs : source.appId = LIVE_TV_APP_ID

\* the two loops of _update_sources: the dict built from the applications (by
\* title) and then the inputs (by id), an input replacing an application of
\* the same name
Merged(t) ==
    [n \in {app.title : app \in t.apps} \cup {source.id : source \in t.inputs} |->
        IF \E source \in t.inputs : source.id = n
        THEN WithOrigin(CHOOSE source \in t.inputs : source.id = n, FALSE)
        ELSE WithOrigin(CHOOSE app \in t.apps : app.title = n, TRUE)]

\* active_source after the two loops: an input of the current application
\* comes after, and so wins over, the application itself
ActiveOf(t) ==
    IF t.current_app_id = None THEN None
    ELSE IF \E source \in t.inputs : source.appId = t.current_app_id[1]
    THEN <<(CHOOSE source \in t.inputs : source.appId = t.current_app_id[1]).id>>
    ELSE IF \E app \in t.apps : app.id = t.current_app_id[1]
    THEN <<(CHOOSE app \in t.apps : app.id = t.current_app_id[1]).title>>
    ELSE None

\* an empty report keeps the previous list even when there was none
RetainedWhenNone(h, t) == DOMAIN Merged(t) = {}

\* the previous list is kept: the report is empty and there was a list
Retained(h, t) == DOMAIN Merged(t) = {} /\ DOMAIN h.sources # {}

\* an entry for live television is made up: the previous list is not kept and
\* the report has no such entry
SynthesizeAlways(h, t) == ~Retained(h, t)

Synthesize(h, t) == ~Retained(h, t) /\ ~FoundLiveTv(t)

\* _update_sources(updated_data): the new snapshot h and the delta d
UpdateSourcesOf(h, t, d) ==
    LET current_source_list == h.sources
        synth == Synthesize(h, t)
        srcs == IF Retained(h, t) THEN current_source_list
                ELSE IF synth THEN Put(Merged(t), "Live TV", SynthLiveTv)
                ELSE Merged(t)
        active_source == IF synth /\ t.current_app_id = <<LIVE_TV_APP_ID>>
                         THEN <<"Live TV">> ELSE ActiveOf(t)
        new_source_list == SourceList(srcs)
        old_source_list == Sorted(DOMAIN current_source_list)
        d1 == IF DOMAIN srcs # {} /\ new_source_list # old_source_list
              THEN Put(d, "SOURCE_LIST", new_source_list) ELSE d
    IN  IF active_source # h.active_source
        THEN [h |-> [h EXCEPT !.sources = srcs, !.active_source = active_source],
              d |-> Put(Put(d1, "SOURCE", active_source),
                        "SENSOR_INPUT_SOURCE", active_source)]
        ELSE [h |-> [h EXCEPT !.sources = srcs], d |-> d1]

\* the sound output part of _update_states (391-402); data is TRUE when the
\* client was passed (a push notification), FALSE for None (after a connect)
SoundOf(r, t, data) ==
    IF data /\ t.sound_output # None
    THEN IF r.h.sound_output # t.sound_output
         THEN [h |-> [r.h EXCEPT !.sound_output = t.sound_output],
               d |-> Put(r.d, "SOUND_MODE", SoundOutput(t.sound_output))]
         ELSE r
    ELSE IF r.h.sound_output = None /\ t.get_sound_output # "raise"
    THEN [h |-> [r.h EXCEPT !.sound_output = <<t.get_sound_output>>],
          d |-> Put(r.d, "SOUND_MODE", SoundOutput(<<t.get_sound_output>>))]
    ELSE r

\* one cached field against its new value: written and reported when it differs
Field(r, f, key, value) ==
    IF value # r.h[f] THEN [h |-> [r.h EXCEPT ![f] = value], d |-> Put(r.d, key, value)]
    ELSE r

\* the volume part of _update_states (411-421)
MutedOf(r, t) ==
    IF t.muted # r.h.is_volume_muted
    THEN [h |-> [r.h EXCEPT !.is_volume_muted = t.muted],
          d |-> Put(Put(r.d, "MUTED", t.muted),
                    "SENSOR_MUTED", IF t.muted THEN "on" ELSE "off")]
    ELSE r

VolumeOf(r, t) == IF t.volume # None THEN Field(r, "volume", "VOLUME", t.volume) ELSE r

\* the media part of _update_states (423-448)
MediaTitle(t) ==
    IF t.current_app_id = <<LIVE_TV_APP_ID>> /\ t.current_channel # None
    THEN t.current_channel[1] ELSE ""

MediaImageUrl(t) ==
    IF t.current_app_id # None /\ \E app \in t.apps : app.id = t.current_app_id[1]
    THEN LET app == CHOOSE a \in t.apps : a.id = t.current_app_id[1]
         IN  IF app.largeIcon[1] = "http" THEN app.largeIcon ELSE app.icon
    ELSE NoUrl

\* the end of _update_states (450-453): the cached sound output is replaced by
\* the one of the client's state
SoundSwap(r, t) ==
    [h |-> [r.h EXCEPT !.sound_output = t.sound_output],
     d |-> IF r.h.sound_output # t.sound_output
           THEN Put(r.d, "SOUND_MODE", SoundOutput(t.sound_output)) ELSE r.d]

\* the state _update_states computes (404-406): on or off by the power query,
\* unless the handle has a media state, whose play state then decides
StateOf(h, t) ==
    IF h.media_state # None
    THEN IF h.media_state[1] \in DOMAIN LG_PLAYSTATES
         THEN LG_PLAYSTATES[h.media_state[1]] ELSE "ON"
    ELSE IF t.get_power_state = "Active" THEN "ON" ELSE "OFF"

\* _update_states(data) on the client state t
UpdateStatesOf(h, t, data) ==
    LET r1 == UpdateSourcesOf(h, t, <<>>)
        r2 == SoundOf(r1, t, data)
        r3 == Field(r2, "state", "STATE", StateOf(h, t))
        r4 == VolumeOf(MutedOf(r3, t), t)
        r5 == Field(r4, "media_type", "MEDIA_TYPE",
                    IF t.current_app_id = <<LIVE_TV_APP_ID>> THEN "TVSHOW" ELSE "VIDEO")
        r6 == Field(r5, "media_title", "MEDIA_TITLE", MediaTitle(t))
        r7 == Field(r6, "media_image_url", "MEDIA_IMAGE_URL", MediaImageUrl(t))
    IN  SoundSwap(r7, t)

\* the state update runs, after a connect (data None) or on a push notification
\* (data the client); UPDATE is emitted with updated_data unless it is empty
UpdateStates(data) ==
    /\ data \in BOOLEAN
    /\ LET r == UpdateStatesOf(snapshot, tv, data)
       IN  Set([St EXCEPT !.snapshot = r.h, !.updated_data = r.d,
                          !.sameRuns = IF sameRuns < MaxSame THEN sameRuns + 1
                                       ELSE sameRuns])

\* _on_state_changed(state): the push notification of a changed client state.
\* A media state in it is stored, the state update runs, and a power flag that
\* is empty sets the handle to OFF
OnStateChanged ==
    /\ tv.power_state \in BOOLEAN
    /\ LET h1 == IF tv.media_state # None
                 THEN [snapshot EXCEPT !.media_state = tv.media_state,
                                       !.paused = (tv.media_state[1] = "paused")]
                 ELSE snapshot
           r == UpdateStatesOf(h1, tv, TRUE)
           h2 == IF ~tv.power_state THEN [r.h EXCEPT !.state = "OFF"] ELSE r.h
       IN  Set([St EXCEPT !.snapshot = h2, !.updated_data = r.d,
                          !.sameRuns = IF sameRuns < MaxSame THEN sameRuns + 1
                                       ELSE sameRuns])

\* the device changes one part of what it reports
Report(f, v) ==
    /\ reportCount < MaxReports
    /\ v # tv[f]
    /\ Set([St EXCEPT !.tv[f] = v, !.reportCount = reportCount + 1, !.sameRuns = 0])

\* the device stops reporting applications and inputs (it is going off)
ReportNoSources ==
    /\ reportCount < MaxReports
    /\ tv.apps # {} /\ tv.inputs # {}
    /\ Set([St EXCEPT !.tv.apps = {}, !.tv.inputs = {},
                      !.reportCount = reportCount + 1, !.sameRuns = 0])

InitUpdate ==
    InitWith([ext |-> 0, disc |-> 0, cmds |-> 0, ticks |-> 0, iters |-> 0, obs |-> FALSE, push |-> 0])

NextUpdate ==
    \/ \E data \in BOOLEAN : UpdateStates(data)
    \/ \E f \in DOMAIN ReportValues : \E v \in ReportValues[f] : Report(f, v)
    \/ ReportNoSources

SpecUpdate == InitUpdate /\ [][NextUpdate]_vars

\* ---- push notifications and the power state of the handle ----
InitPush ==
    InitWith([ext |-> 0, disc |-> 0, cmds |-> 0, ticks |-> 0, iters |-> 0, obs |-> FALSE, push |-> 0])

NextPush ==
    \/ UpdateStates(FALSE)
    \/ OnStateChanged
    \/ \E f \in DOMAIN PushValues : \E v \in PushValues[f] : Report(f, v)

SpecPush == InitPush /\ [][NextPush]_vars

\* ---- commands on a handle whose device reports its volume ----
InitCommand ==
    InitWith([ext |-> CommandExt, disc |-> 0, cmds |-> CommandCmds,
              ticks |-> 0, iters |-> CommandIter, obs |-> TRUE, push |-> 0])

NextCommand ==
    \/ \E p \in Attempts : AttemptStart(p)
    \/ \E l \in Loops : LoopWake(l)
    \/ \E p \in Attempts, o \in {"ok", "raise"} : TvConnectDone(p, o)
    \/ \E p \in Attempts, o \in {"ok", "raise"} : UpdateDone(p, o, {"HDMI1"})
    \/ \E p \in Attempts, o \in {"ok", "raise"} : InvokeDone(p, o)
    \/ \E c \in Conns : ExtConnect(c)
    \/ \E k \in Calls : CmdCall(k, FALSE)
    \/ \E k \in Calls, volume \in VolumeArgs : SetVolumeCall(k, volume)
    \/ \E k \in Calls, S \in Requests : SelectCall(k, S)
    \/ \E k \in Calls, o \in {"ok", "raise"} : SelectDone(k, o)
    \/ PowerOnCall
    \/ \E k \in Calls : PowerOffCall(k)
    \/ \E k \in Calls, lg \in {"ON", "STANDBY", "OFF"} : PowerOffChecked(k, lg)
    \/ \E k \in Calls, o \in {"ok", "raise"} : PowerOffSent(k, o)
    \/ \E o \in {"on", "off"} : CheckConnectDone(o)
    \/ \E k \in Calls : CmdYieldDone(k)
    \/ \E k \in Calls : CmdWaitTimeout(k)
    \/ \E k \in Calls : CmdResume(k)
    \/ \E k \in Calls, o \in {"ok", "raise"} : CmdBodyDone(k, o)
    \/ \E data \in BOOLEAN : UpdateStates(data)
    \/ Report("volume", <<10>>)

SpecCommand == InitCommand /\ [][NextCommand]_vars

\* ---- the claims ----
InCritical(p) == pc[p] \in {"tvconnect", "update", "invoke"}

Enters(p) == pc[p] # "tvconnect" /\ pc'[p] = "tvconnect"

LogIdx == 1..Len(drainLog)

\* C1: at most one connect attempt is inside the guarded critical section of
\* connect() (after acquiring the lock, before its final release) at any instant
C1_OneCriticalSection ==
    Cardinality({p \in Attempts : InCritical(p)}) <= 1

\* C2: at any instant at most one retry loop task is alive for the handle (a
\* task whose cancellation is requested and not yet delivered does not count)
C2_OneRetryLoop ==
    Cardinality({l \in Loops : pc[l] # "none" /\ ~cancelReq[l]}) <= 1

\* C3: once the retry loop has given up at the retry ceiling the counter is zero,
\* the handle is idle and unavailable, and no connect attempt is made until an
\* external connect request or command
C3_RetryCeiling ==
    [][/\ abandoned' => reconnect_retry' = 0 /\ ~available' /\ connect_task' = NoTask
       /\ abandoned => \A p \in Attempts : ~Enters(p)]_vars

\* C4: a retry loop that was in flight when disconnect() was called makes no
\* further connect attempt
C4_CancelledLoopStops ==
    [][\A l \in Loops : cancelled[l] => ~Enters(l)]_vars

\* C5: every command accepted for buffering stays in the buffer as its own entry
\* until a drain reaches it
C5_EntriesKept ==
    \A id \in accepted :
        \/ \E t \in DOMAIN buffered_callbacks : buffered_callbacks[t].id = id
        \/ \E i \in LogIdx : drainLog[i].id = id

\* C6: each buffered entry is invoked at most once over any sequence of connects
C6_InvokedAtMostOnce ==
    \A i, j \in LogIdx :
        drainLog[i].inv /\ drainLog[j].inv /\ drainLog[i].id = drainLog[j].id => i = j

\* C7: buffered commands are replayed in the order in which they were issued: no
\* entry is invoked before an entry that was buffered earlier
C7_ReplayInIssueOrder ==
    \A i, j \in LogIdx :
        i < j /\ drainLog[i].inv /\ drainLog[j].inv => drainLog[i].id <= drainLog[j].id

\* C8: an entry a drain reaches is invoked if and only if its age at that moment
\* is at most BUFFER_LIFETIME; an older entry is removed without being invoked
C8_InvokedIffFresh ==
    \A i \in LogIdx :
        drainLog[i].inv <=> drainLog[i].at - drainLog[i].ts <= BUFFER_LIFETIME

\* a drain dropped an expired entry and invoked a younger one queued behind it
C8_Witness ==
    \E i, j \in LogIdx :
        /\ i < j
        /\ ~drainLog[i].inv /\ drainLog[i].at - drainLog[i].ts > BUFFER_LIFETIME
        /\ drainLog[j].inv

\* C9: select_source(S) on a device that is off sends a wake packet and buffers
\* the selection, and the replay after a successful connect selects S: it is not
\* refused (a failing transport call or a source the device does not have aside)
C9_SelectReplayed ==
    /\ accepted \subseteq wolFor
    /\ \A r \in replayRes : r.res # "off"

\* C10: no exception propagates out of the retry wrapper to the caller
C10_NoEscape == ~escaped

Wrapped == {"cmd", "set_volume_level"}

C12_TimeoutKeepsLoop ==
    [][\A k \in Calls :
          cpc[k] = "wait" /\ cpc'[k] \in {"rccbody", "none"}
              => pc' = pc /\ cancelReq' = cancelReq /\ connect_task' = connect_task]_vars

\* after a call whose wait timed out, a later call found the handle available
\* again (the loop had connected) and returned OK at its first try
C12_Witness ==
    \E k \in Calls :
        /\ cres[k].info.fn = "cmd" /\ cres[k].info.prevto
        /\ ~cres[k].info.unav /\ cres[k].res = "OK" /\ cres[k].tries = 1
        /\ connect_task = NoTask /\ tvConn /\ tvIsOn

\* C13: set_volume_level with a volume outside 0..100 returns BAD_REQUEST and
\* makes no call to the transport.
C13_VolumeRangeRejected ==
    \A k \in Calls :
        LET r == cres[k] IN
        (/\ r.info.fn = "set_volume_level" /\ r.info.arg # <<>>
         /\ (r.info.arg[1] < 0 \/ r.info.arg[1] > 100))
            => r.res = "BAD_REQUEST" /\ ~r.info.sent

\* C14: set_volume_level(None) returns BAD_REQUEST, makes no call to the
\* transport and starts no reconnect.
C14_NoneVolumeRejected ==
    \A k \in Calls :
        LET r == cres[k] IN
        r.info.fn = "set_volume_level" /\ r.info.arg = <<>>
            => r.res = "BAD_REQUEST" /\ ~r.info.sent /\ ~r.info.spawned

\* C15: select_source with a name that is not in the source list, called while
\* the device is connected, on and has a source list, returns a rejection,
\* sends no wake packet, buffers nothing and starts no reconnect.
C15_UnknownSourceRejected ==
    \A k \in Calls :
        LET r == cres[k] IN
        r.info.fn = "select_source" /\ ~r.info.unav /\ ~r.info.known
            => /\ r.res = "BAD_REQUEST"
               /\ ~r.info.wol /\ ~r.info.buffered /\ ~r.info.spawned

\* the transport connect of attempt p ends in a failure (an exception, an
\* unusable session, a cancellation): the attempt leaves connect() at once
FailsAt(p) == pc[p] = "tvconnect" /\ pc'[p] \notin {"tvconnect", "update"}

\* C16: a connect attempt whose transport connect fails or gives an unusable
\* session returns normally with the handle unavailable and the buffer not
\* drained, and when connect() returns to a caller other than the retry loop,
\* the handle has a retry loop task that is running.
C16_FailedConnect ==
    [][\A p \in Attempts :
          FailsAt(p) =>
              /\ ~available' /\ drainLog' = drainLog
              /\ buffered_callbacks' = buffered_callbacks
              /\ p \in Conns =>
                    /\ pc'[p] = "none"
                    /\ connect_task' # NoTask /\ pc'[connect_task'] # "none"]_vars
\* the number of CONNECTED events that attempt p emitted in the last step
Emitted(p) == Cardinality({i \in 1..Len(connectedBy') : connectedBy'[i] = p})

\* C17: a connect attempt emits CONNECTED exactly once, in the step in which it
\* leaves connect(), however it ends, and at no other time.
C17_ConnectedOnce ==
    [][\A p \in Attempts :
          Emitted(p) = IF InCritical(p) /\ ~InCritical(p)' THEN 1 ELSE 0]_vars

\* the attempt of a loop that disconnect() cancelled has ended and emitted its event
C17_Witness ==
    \E l \in Loops : cancelled[l] /\ ~cancelReq[l] /\ connectedBy = <<l>>

\* C18: a second run of the state update on an unchanged device report reports
\* no field (neither SOURCE_LIST nor SOUND_MODE nor any other) and so emits no
\* UPDATE event.
C18_SecondRunEmpty ==
    sameRuns = MaxSame => updated_data = <<>>

\* a step in which the state update has run
UpdateRan == tv' = tv /\ sameRuns' > 0

\* C19: when the state update runs on a report without applications and inputs
\* and the handle has a source list, the list is kept as it is and no SOURCE_LIST
\* is reported.
C19_EmptyReportKeepsList ==
    [][UpdateRan /\ tv.apps = {} /\ tv.inputs = {} /\ DOMAIN snapshot.sources # {}
          => /\ snapshot'.sources = snapshot.sources
             /\ "SOURCE_LIST" \notin DOMAIN updated_data']_vars

\* how many times the source list names the made-up live television entry
SynthCount(srcs) ==
    Cardinality({i \in DOMAIN SourceList(srcs) : srcs[SourceList(srcs)[i]] = SynthLiveTv})

\* C20 as stated: after the state update has run on a report without an entry
\* for live television the source list has the made-up entry exactly once, and
\* after it has run on a report with such an entry the list has none.
C20_LiveTvSynthesized ==
    [][UpdateRan => SynthCount(snapshot'.sources) = IF FoundLiveTv(tv) THEN 0 ELSE 1]_vars

\* C20, amended: the same, except that an empty report after a list keeps that
\* list as it is, with the made-up entry if it had one and without it if not.
C20_LiveTvSynthesizedUnlessKept ==
    [][UpdateRan =>
          SynthCount(snapshot'.sources) =
              IF tv.apps = {} /\ tv.inputs = {} /\ DOMAIN snapshot.sources # {}
              THEN SynthCount(snapshot.sources)
              ELSE IF FoundLiveTv(tv) THEN 0 ELSE 1]_vars

\* the update has run on a report of an application and an input, neither of
\* them live television, and the list names the made-up entry after them
C20_Witness ==
    /\ sameRuns > 0
    /\ tv.apps = {AmazonApp} /\ tv.inputs = {Hdmi1Input}
    /\ SourceList(snapshot.sources) = <<"HDMI1", "Amazon", "Live TV">>
    /\ snapshot.sources["Live TV"] = SynthLiveTv

\* the handle is cached as on
IsOn(h) == h.state = "ON"

\* C21: after an update cycle (the state update after a connect, or a push
\* notification handled to its end) that leaves the handle on or off, the
\* handle is on exactly if the power query of that cycle answered Active.
C21_StateFollowsQuery ==
    sameRuns > 0 /\ snapshot.state \in {"ON", "OFF"}
        => (IsOn(snapshot) <=> tv.get_power_state = "Active")

\* C22: a configuration update for the registered device id leaves the registry
\* with the one handle it had, and the handle with its buffer, its connection
\* state and its retry loop: only the configuration record is replaced; and a
\* connect attempt that creates its transport client creates it with the
\* address and the key of the record the handle has then.
C22_ConfigUpdateKeepsHandle ==
    [][/\ device_config' # device_config =>
            /\ configured_devices' = configured_devices
            /\ buffered_callbacks' = buffered_callbacks
            /\ available' = available /\ connecting' = connecting
            /\ connect_lock' = connect_lock /\ connect_task' = connect_task
            /\ reconnect_retry' = reconnect_retry
            /\ tvConn' = tvConn /\ tvHost' = tvHost
            /\ \A l \in Loops : pc'[l] = pc[l]
       /\ \A p \in Attempts :
            pc[p] # "tvconnect" /\ pc'[p] = "tvconnect" => tvHost' = device_config']_vars

\* the record has been replaced, the handle is the one the driver created, with
\* an entry in its buffer and its retry loop running, and a connect attempt has
\* created its client with the new record
C22_Witness ==
    /\ device_config # FirstConfig /\ tvHost = device_config
    /\ DOMAIN buffered_callbacks # {}
    /\ connect_task # NoTask /\ pc[connect_task] # "none"
    /\ configured_devices[DeviceId] = FirstHandle

\* a task calls connect() in this step (or ends before it has called it)
CallsConnect(p) == pc[p] \in {"ready", "sleep"} /\ pc'[p] # pc[p]

\* C23: a connect() entered while the connect lock is held, and has been held
\* for no longer than CONNECT_LOCK_TIMEOUT, does nothing: the transport client,
\* the availability, the lock and the buffer stay as they are, nothing is
\* drained and no CONNECTED event is emitted.
C23_LockedConnectNoOp ==
    [][\A p \in Attempts :
          CallsConnect(p) /\ connect_lock /\ ~(now' - connect_lock_time > CONNECT_LOCK_TIMEOUT)
              => /\ tvOwner' = tvOwner /\ tvHost' = tvHost /\ tvConn' = tvConn
                 /\ available' = available /\ connecting' = connecting
                 /\ connect_lock' /\ connect_lock_time' = connect_lock_time
                 /\ buffered_callbacks' = buffered_callbacks /\ drainLog' = drainLog
                 /\ connectedBy' = <<>>
                 /\ p \in Conns => pc'[p] = "none"]_vars

\* a connect() task has returned at once, while the attempt that holds the lock
\* is still waiting for the transport
C23_Witness ==
    \E c \in Conns, p \in Attempts :
        /\ c # p /\ pc[c] = "none" /\ pc[p] = "tvconnect" /\ tvOwner = p
        /\ connect_lock /\ extCount = LockExt /\ readyQ = <<>>
        /\ \A x \in Attempts \ {p} : pc[x] = "none"
        /\ connectedBy = <<>> /\ dpc = "none" /\ discCount = 0

\* C24: the connect lock is held only while a connect attempt is in progress:
\* every way out of an attempt (success, a transport failure, an unusable
\* session, a cancellation) leaves the lock free.
C24_LockFreeWhenIdle ==
    connect_lock => \E p \in Attempts : InCritical(p)

\* the attempt of a retry loop that disconnect() cancelled has left connect(),
\* no attempt is in progress and the lock is free
C24_Witness ==
    /\ ~connect_lock /\ \A p \in Attempts : ~InCritical(p)
    /\ \E l \in Loops : cancelled[l] /\ ~cancelReq[l] /\ connectedBy = <<l>>

\* an attempt is in the middle of a drain, waiting for a function it invoked
Draining(p) == pc[p] = "invoke"

\* C25: entries leave the buffer only in a step of a connect attempt that has
\* connected its transport and pulled the state, and at no time are two attempts
\* in the middle of a drain.
C25_OneDrainInsideConnect ==
    [][/\ drainLog' # drainLog =>
            \E p \in Attempts : (pc[p] = "update" /\ tvConn) \/ Draining(p)
       /\ Cardinality({p \in Attempts : Draining(p)'}) <= 1]_vars

\* a step in which connect() of attempt p ends without an exception: its try
\* block is left after the drain, with the handle available
Succeeds(p) ==
    /\ pc[p] \in {"update", "invoke"} /\ ~InCritical(p)'
    /\ available'

\* C26: a step in which a connect attempt succeeds leaves the reconnect counter
\* at zero, for an attempt of the retry loop and for an attempt of another task.
C26_SuccessResetsCounter ==
    [][\A p \in Attempts : Succeeds(p) => reconnect_retry' = 0]_vars

\* C27: the reconnect counter is between 0 and CONNECTION_RETRIES + 1 in every
\* state, and no retry loop has called connect() more than CONNECTION_RETRIES + 1
\* times.
C27_CounterAndAttemptsBounded ==
    /\ reconnect_retry \in 0..(CONNECTION_RETRIES + 1)
    /\ \A l \in Loops : loopCalls[l] <= CONNECTION_RETRIES + 1

\* C28: a step in which connect() of a retry loop succeeds ends the loop with
\* the counter at zero when the device is reported on, and leaves the loop
\* asleep before its next iteration when the device is reported off.
C28_PowerOnEndsLoop ==
    [][\A l \in Loops : Succeeds(l) =>
            IF tvIsOn THEN pc'[l] = "none" /\ reconnect_retry' = 0
            ELSE pc'[l] = "sleep"]_vars

\* C29: a call of a retry-wrapped command calls the wrapped function at most
\* twice, while it runs and when it has returned.
C29_BodyAtMostTwice ==
    \A k \in Calls :
        /\ cinfo[k].fn \in Wrapped => cinfo[k].bodies <= 2
        /\ cres[k].info.fn \in Wrapped => cres[k].info.bodies <= 2

\* a call returned BAD_REQUEST after it had called the wrapped function twice
C29_Witness ==
    \E k \in Calls :
        /\ cres[k].info.fn \in Wrapped /\ cres[k].info.bodies = 2
        /\ cres[k].res = "BAD_REQUEST"

\* C30: a call of a retry-wrapped command without bufferize begins to wait for
\* the connect task at most once.
C30_WaitsAtMostOnce ==
    \A k \in Calls :
        /\ cinfo[k].fn \in Wrapped => cinfo[k].waits <= 1
        /\ cres[k].info.fn \in Wrapped => cres[k].info.waits <= 1

\* C31: a push message of the device causes at most one run of the state-update
\* handler of the handle, whatever connect attempts were made before.
C31_OneHandlerRunPerPush == handlerRuns <= 1

\* C32: a connect() entered while the connect lock has been held for longer
\* than CONNECT_LOCK_TIMEOUT does not return and does not wait: in the same
\* step it takes the lock with a new lock time, gives the handle a new client
\* and is at the transport connect of its own attempt.
C32_StaleLockForced ==
    [][\A p \in Attempts :
          /\ CallsConnect(p) /\ (p \in Loops => ~cancelReq[p])
          /\ connect_lock /\ now' - connect_lock_time > CONNECT_LOCK_TIMEOUT
          => /\ pc'[p] = "tvconnect" /\ tvOwner' = p /\ ~tvConn'
             /\ connect_lock' /\ connect_lock_time' = now' /\ connecting']_vars

\* an attempt has taken the lock from an attempt that had held it for longer
\* than CONNECT_LOCK_TIMEOUT and still waits for the transport; no disconnect()
\* was called
C32_Witness ==
    \E p, q \in Attempts :
        /\ p # q /\ pc[p] = "tvconnect" /\ pc[q] = "tvconnect" /\ tvOwner = p
        /\ connect_lock /\ connect_lock_time = now /\ now > CONNECT_LOCK_TIMEOUT
        /\ discCount = 0

\* C37: a deferred power-off is not invoked by a drain once power_on was called
\* after it was buffered: the step that invokes a buffered power_off_deferred
\* is not about an entry that was in the buffer when power_on was called.
C37_PowerOnSupersedesPowerOff ==
    [][\A i \in (1..Len(drainLog')) \ (1..Len(drainLog)) :
          drainLog'[i].fn = "poweroff" /\ drainLog'[i].inv
              => drainLog'[i].id \notin superseded]_vars

\* C34: the retry loop sends a wake packet in a step exactly when that step
\* ends an iteration below the retry ceiling with the wake-retry flag set; the
\* flag is set only in a step of power_on, is clear after the step in which the
\* body of power_off starts, and is clear after every step in which a retry
\* loop task ends.
C34_WakeRetryFlag ==
    [][/\ loopWol' <=> (retry_wakeonlan /\ reconnect_retry' = reconnect_retry + 1)
       /\ (retry_wakeonlan' /\ ~retry_wakeonlan) => chkPending' = chkPending + 1
       /\ \A k \in Calls :
             /\ cpc[k] \notin {"body", "rccbody"} /\ cpc'[k] \in {"body", "rccbody"}
             /\ carg'[k] = "power_off"
             => ~retry_wakeonlan'
       /\ \A l \in Loops :
             pc[l] # "none" /\ pc'[l] = "none" => ~retry_wakeonlan']_vars

\* the cached snapshot fields a command is not to write
CachedFields ==
    {"volume", "is_volume_muted", "active_source", "sources", "media_title",
     "media_image_url", "media_type", "sound_output"}

C35_AvailableOnlyWhileConnected ==
    [][/\ extCount = 0 /\ cmdCount = 0 => ~available
       /\ available' /\ ~available => \E p \in Attempts : Succeeds(p)
       /\ dpc = "tvdisc" /\ dpc' = "none" => ~available']_vars

\* C36: whenever the cached power/playback state of the handle changes, an
\* UPDATE event that carries the new STATE is emitted in the same step
C36_StateChangeEmitted ==
    [][snapshot'.state # snapshot.state
          => /\ "STATE" \in DOMAIN updated_data'
             /\ updated_data'["STATE"] = snapshot'.state]_vars

\* a step in which the drain of attempt p, which had invoked a function and was
\* waiting for it, ends
DrainEnds(p) == pc[p] = "invoke" /\ pc'[p] # "invoke"

\* C38: a drain during which no new command is buffered leaves the buffer empty
\* when it ends, whether its entries return, raise or have expired
C38_DrainLeavesBufferEmpty ==
    [][\A p \in Attempts :
          DrainEnds(p) /\ accepted' = drainOld[p]
              => DOMAIN buffered_callbacks' = {}]_vars

\* C39: after any run of the source-list reconciliation the cached source list
\* is non-empty: an empty report keeps the previous list, and an empty report
\* with no previous list leaves the made-up Live TV entry as the only one
C39_SourceListNeverEmpty ==
    [][UpdateRan =>
          /\ DOMAIN snapshot'.sources # {}
          /\ tv.apps = {} /\ tv.inputs = {} =>
                snapshot'.sources =
                    IF DOMAIN snapshot.sources # {} THEN snapshot.sources
                    ELSE [n \in {"Live TV"} |-> SynthLiveTv]]_vars

\* the update has run on an empty report and the list is the made-up entry
C39_Witness ==
    /\ sameRuns > 0 /\ tv.apps = {} /\ tv.inputs = {}
    /\ DOMAIN snapshot.sources = {"Live TV"}
    /\ snapshot.sources["Live TV"] = SynthLiveTv

\* C40: at most one address check is in progress at a time, a call made while
\* one is in progress returns at once and changes nothing, and the lock is free
\* whenever a check has ended, also when the discovery raised
C40_OneAddressCheck ==
    [][/\ Cardinality({h \in Checks : apc'[h] = "discover"}) <= 1
       /\ checkCount' # checkCount /\ config_lock =>
              apc' = apc /\ device_config' = device_config
       /\ \A h \in Checks :
              apc[h] = "discover" /\ apc'[h] = "none" => ~config_lock']_vars
====
